---- MODULE Spec2Model ----
(***************************************************************************)
(* A model of update_sky_map_table.py: the tool that synchronises the      *)
(* Markdown map table with the level enumeration and two .strings files.   *)
(*                                                                         *)
(* Text is modelled as a sequence of tokens.  A token is one character     *)
(* ("A", "a", "|", " ", "-", the line feed "\n", ...) or one of the fixed  *)
(* words the program looks for or emits: the nine column titles (written   *)
(* here in ASCII: "ID" for the identifier column, "CN" for the Chinese     *)
(* name, "NICK", "EN", "KEY", "VER", "GROUP", "SHOT", "NOTE"), and the     *)
(* key affixes "name_", "title_" and "_01".  A Python str is a sequence of *)
(* tokens, a list of str a sequence of such sequences, a dict a function.  *)
(***************************************************************************)
EXTENDS Integers, Sequences, FiniteSets, TLC

VARIABLES
    table_file,            \* the file at --table:   [exists, content]
    levels_file,           \* the file at --levels:  [exists, content]
    chinese_file,          \* the file at --chinese: [exists, entries]
    english_file,          \* the file at --english: [exists, entries]
    pc,                    \* position in main / in the merge driver
    run,                   \* which run of the program this is
    error,                 \* the name printed by the existence check
    identifiers,           \* main's local: List[str]
    chinese_translations,  \* main's local: Dict[str, str]
    english_translations,  \* main's local: Dict[str, str]
    headers,               \* main's local: List[str]
    existing_data,         \* main's local: Dict[str, Dict[str, str]]
    non_table_content,     \* main's local: List[str]
    merged_data,           \* main's local: Dict[str, Dict[str, str]]
    leading,               \* lines[:table_start] as read_existing_table saw them
    trailing,              \* lines[i:] as read_existing_table saw them
    table_found,           \* whether read_existing_table found a header line
    start_table,           \* table_file when the current run started
    prev_output,           \* << table_file >> as the previous run left it, << >> in the first run
    prev_merged            \* << the result of the previous merge_table_data call >>, << >> at the first

vars == << table_file, levels_file, chinese_file, english_file, pc, run, error,
           identifiers, chinese_translations, english_translations, headers,
           existing_data, non_table_content, merged_data, leading, trailing,
           table_found, start_table, prev_output, prev_merged >>

-----------------------------------------------------------------------------
(* str and list primitives of Python, on token sequences                   *)

NL == "\n"
SP == " "
BAR == "|"

EmptyStr == << >>
EmptyDict == << >>

\* The code point order Python's sorted() compares characters by.
Ord(c) ==
    CASE c = NL -> 10
      [] c = SP -> 32
      [] c = "-" -> 45
      [] c = "A" -> 65
      [] c = "B" -> 66
      [] c = "C" -> 67
      [] c = "a" -> 97
      [] c = "b" -> 98
      [] c = "v" -> 118
      [] c = "w" -> 119
      [] c = "x" -> 120
      [] c = "y" -> 121
      [] c = BAR -> 124
      [] OTHER -> 200

\* str.lower() on one character.
LowerChar(c) ==
    CASE c = "A" -> "a"
      [] c = "B" -> "b"
      [] OTHER -> c

Lower(s) == [i \in 1..Len(s) |-> LowerChar(s[i])]

IsSpace(c) == c \in {SP, NL}

Range(s) == {s[i] : i \in 1..Len(s)}

RECURSIVE LStrip(_, _)
LStrip(s, chars) ==
    IF s # << >> /\ Head(s) \in chars THEN LStrip(Tail(s), chars) ELSE s

RECURSIVE RStrip(_, _)
RStrip(s, chars) ==
    IF s # << >> /\ s[Len(s)] \in chars
    THEN RStrip(SubSeq(s, 1, Len(s) - 1), chars)
    ELSE s

\* str.strip(): both ends, white space.
Strip(s) == RStrip(LStrip(s, {SP, NL}), {SP, NL})

\* str.strip('|').
StripBars(s) == RStrip(LStrip(s, {BAR}), {BAR})

\* str.startswith(c) for a one-character prefix.
StartsWith(s, c) == s # << >> /\ Head(s) = c

\* str.endswith(suffix).
EndsWith(s, suffix) ==
    /\ Len(s) >= Len(suffix)
    /\ SubSeq(s, Len(s) - Len(suffix) + 1, Len(s)) = suffix

\* str.split(sep) for a one-character separator: the pieces between the
\* occurrences of sep, always at least one piece.
Split(s, sep) ==
    LET at == {i \in 1..Len(s) : s[i] = sep}
        \* the position of the k-th occurrence; 0 and Len(s) + 1 at the ends
        Cut(k) == IF k = 0 THEN 0
                  ELSE IF k > Cardinality(at) THEN Len(s) + 1
                  ELSE CHOOSE p \in at : Cardinality({q \in at : q < p}) = k - 1
    IN  [k \in 1..(Cardinality(at) + 1) |-> SubSeq(s, Cut(k - 1) + 1, Cut(k) - 1)]

\* sep.join(list).
RECURSIVE Join(_, _)
Join(list, sep) ==
    IF list = << >> THEN << >>
    ELSE IF Len(list) = 1 THEN list[1]
    ELSE list[1] \o << sep >> \o Join(Tail(list), sep)

\* Python's lexicographic str comparison a < b.
RECURSIVE StrLess(_, _)
StrLess(a, b) ==
    IF b = << >> THEN FALSE
    ELSE IF a = << >> THEN TRUE
    ELSE IF Ord(Head(a)) # Ord(Head(b)) THEN Ord(Head(a)) < Ord(Head(b))
    ELSE StrLess(Tail(a), Tail(b))

\* sorted(list): insertion into an ascending list, equal elements kept.
RECURSIVE Insert(_, _)
Insert(x, sorted) ==
    IF sorted = << >> THEN << x >>
    ELSE IF StrLess(x, Head(sorted)) THEN << x >> \o sorted
    ELSE << Head(sorted) >> \o Insert(x, Tail(sorted))

RECURSIVE Sorted(_)
Sorted(list) ==
    IF list = << >> THEN << >>
    ELSE Insert(list[Len(list)], Sorted(SubSeq(list, 1, Len(list) - 1)))

\* sorted(d.keys()) of a dict, from its key set.
RECURSIVE SortedSet(_)
SortedSet(S) ==
    IF S = {} THEN << >>
    ELSE LET x == CHOOSE m \in S : \A o \in S : o = m \/ StrLess(m, o)
         IN  << x >> \o SortedSet(S \ {x})

\* dict.get(key, '').
Get(d, key) == IF key \in DOMAIN d THEN d[key] ELSE EmptyStr

\* d[key] = value.
Put(d, key, value) ==
    [k \in (DOMAIN d) \cup {key} |-> IF k = key THEN value ELSE d[k]]

-----------------------------------------------------------------------------
(* The column titles and the key affixes                                   *)

ColIdentifier == << "ID" >>
ColChinese == << "CN" >>
ColNickname == << "NICK" >>
ColEnglish == << "EN" >>
ColKey == << "KEY" >>
ColVersion == << "VER" >>
ColGroup == << "GROUP" >>
ColShot == << "SHOT" >>
ColNote == << "NOTE" >>

DefaultHeaders ==
    << ColIdentifier, ColChinese, ColNickname, ColEnglish, ColKey,
       ColVersion, ColGroup, ColShot, ColNote >>

NameKey(identifier) == << "name_" >> \o Lower(identifier)
TitleKey(identifier) == << "title_" >> \o Lower(identifier) \o << "_01" >>

-----------------------------------------------------------------------------
(* parse_level_list                                                        *)

ReplaceNewlines(s) == [i \in 1..Len(s) |-> IF s[i] = NL THEN SP ELSE s[i]]

\* re.sub(r'\s+', ' ', content)
RECURSIVE CollapseSpaces(_)
CollapseSpaces(s) ==
    IF s = << >> THEN << >>
    ELSE IF IsSpace(Head(s))
         THEN << SP >> \o CollapseSpaces(LStrip(s, {SP, NL}))
         ELSE << Head(s) >> \o CollapseSpaces(Tail(s))

parse_level_list(file) ==
    IF ~file.exists THEN << >>
    ELSE LET content == Strip(CollapseSpaces(ReplaceNewlines(file.content)))
         IN  IF content = << >> THEN << >>
             ELSE SelectSeq(Split(content, SP), LAMBDA id : id # << >>)

-----------------------------------------------------------------------------
(* parse_strings_file.  The file is given by the sequence of its           *)
(* "key" = "value"; entries, in the order pattern.findall returns them.    *)

RECURSIVE StoreEntries(_, _)
StoreEntries(translations, entries) ==
    IF entries = << >> THEN translations
    ELSE StoreEntries(Put(translations, Head(entries)[1], Head(entries)[2]),
                      Tail(entries))

parse_strings_file(file) ==
    IF ~file.exists THEN EmptyDict
    ELSE StoreEntries(EmptyDict, file.entries)

-----------------------------------------------------------------------------
(* get_translation_key                                                     *)

get_translation_key(identifier, translations) ==
    IF NameKey(identifier) \in DOMAIN translations
    THEN << NameKey(identifier), NameKey(identifier) >>
    ELSE IF TitleKey(identifier) \in DOMAIN translations
    THEN << TitleKey(identifier), TitleKey(identifier) >>
    ELSE << EmptyStr, EmptyStr >>

-----------------------------------------------------------------------------
(* is_empty_or_whitespace                                                  *)

is_empty_or_whitespace(value) == value = EmptyStr \/ Strip(value) = EmptyStr

-----------------------------------------------------------------------------
(* merge_table_data                                                        *)

\* Lookup without the reset of lines 177-180: the resolved key is kept even
\* when neither map holds a name under it.
LookupKeepsKey(identifier, chinese, english) ==
    LET key == get_translation_key(identifier, english)[2]
    IN  [chinese_name |-> IF key # EmptyStr THEN Get(chinese, key) ELSE EmptyStr,
         english_name |-> IF key # EmptyStr THEN Get(english, key) ELSE EmptyStr,
         actual_key |-> key]

\* The names looked up for one identifier, and the key after the reset of
\* lines 177-180: [chinese_name, english_name, actual_key].
Lookup(identifier, chinese, english) ==
    LET resolved == get_translation_key(identifier, english)
        key == resolved[2]
        cn == IF key # EmptyStr THEN Get(chinese, key) ELSE EmptyStr
        en == IF key # EmptyStr THEN Get(english, key) ELSE EmptyStr
    IN  [chinese_name |-> cn,
         english_name |-> en,
         actual_key |-> IF cn = EmptyStr /\ en = EmptyStr THEN EmptyStr ELSE key]

\* The record created for an identifier that has none (lines 204-215).
NewEntry(identifier, found) ==
    [c \in Range(DefaultHeaders) |->
        CASE c = ColIdentifier -> identifier
          [] c = ColChinese -> found.chinese_name
          [] c = ColEnglish -> found.english_name
          [] c = ColKey -> found.actual_key
          [] OTHER -> EmptyStr]

\* Backfill without the test for an empty cell: a value found overwrites.
BackfillAlways(entry, col, value) ==
    IF value # EmptyStr THEN Put(entry, col, value) ELSE entry

\* One backfill test of lines 188-198: column col of entry gets value when
\* the cell is empty or white space and value is a non-empty str.
Backfill(entry, col, value) ==
    IF is_empty_or_whitespace(Get(entry, col)) /\ value # EmptyStr
    THEN Put(entry, col, value)
    ELSE entry

\* UpdateEntry that fills the nickname column, not the Chinese name column.
UpdateEntryNickname(entry, found) ==
    Backfill(Backfill(Backfill(entry, ColNickname, found.chinese_name),
                      ColEnglish, found.english_name),
             ColKey, found.actual_key)

\* UpdateEntry that fills the English name from chinese_name.
UpdateEntryWrongName(entry, found) ==
    Backfill(Backfill(Backfill(entry, ColChinese, found.chinese_name),
                      ColEnglish, found.chinese_name),
             ColKey, found.actual_key)

\* The update of a record that exists (lines 182-198).
UpdateEntry(entry, found) ==
    Backfill(Backfill(Backfill(entry, ColChinese, found.chinese_name),
                      ColEnglish, found.english_name),
             ColKey, found.actual_key)

\* MergeOne that creates a record only for an identifier with a name.
MergeOneSkipUntranslated(merged, identifier, chinese, english) ==
    LET found == Lookup(identifier, chinese, english)
    IN  IF identifier \in DOMAIN merged
        THEN Put(merged, identifier, UpdateEntry(merged[identifier], found))
        ELSE IF found.actual_key = EmptyStr THEN merged
        ELSE Put(merged, identifier, NewEntry(identifier, found))

\* One iteration of the loop of lines 170-220.
MergeOne(merged, identifier, chinese, english) ==
    LET found == Lookup(identifier, chinese, english)
    IN  IF identifier \in DOMAIN merged
        THEN Put(merged, identifier, UpdateEntry(merged[identifier], found))
        ELSE Put(merged, identifier, NewEntry(identifier, found))

RECURSIVE MergeLoop(_, _, _, _)
MergeLoop(merged, ids, chinese, english) ==
    IF ids = << >> THEN merged
    ELSE MergeLoop(MergeOne(merged, Head(ids), chinese, english),
                   Tail(ids), chinese, english)

merge_table_data(ids, chinese, english, existing) ==
    MergeLoop(existing, Sorted(ids), chinese, english)

-----------------------------------------------------------------------------
(* read_existing_table                                                     *)

\* The test of line 95 on one line.
IsHeaderLine(line) == StartsWith(line, BAR) /\ "ID" \in Range(line)

\* The index of the first header line, 0 when there is none (lines 93-97).
TableStart(lines) ==
    LET found == {i \in 1..Len(lines) : IsHeaderLine(lines[i])}
    IN  IF found = {} THEN 0
        ELSE CHOOSE i \in found : \A j \in found : i <= j

\* [cell.strip() for cell in line.strip('|').split('|')] (lines 110, 120).
Cells(line) ==
    LET parts == Split(StripBars(line), BAR)
    IN  [j \in 1..Len(parts) |-> Strip(parts[j])]

\* The record stored for one row (lines 125-133): short rows are padded, and
\* of two columns of one title the later one is kept.
RowRecord(hdrs, cells) ==
    [h \in Range(hdrs) |->
        LET j == CHOOSE k \in 1..Len(hdrs) :
                     hdrs[k] = h /\ \A m \in 1..Len(hdrs) : hdrs[m] = h => m <= k
        IN  IF j <= Len(cells) THEN cells[j] ELSE EmptyStr]

\* The loop of lines 113-133 from line i on: the records and the lines kept
\* from the first line that is no table row.
RECURSIVE ReadRows(_, _, _, _)
ReadRows(lines, i, hdrs, data) ==
    IF i > Len(lines) THEN [data |-> data, rest |-> << >>]
    ELSE LET line == Strip(lines[i])
         IN  IF ~StartsWith(line, BAR)
             THEN [data |-> data, rest |-> SubSeq(lines, i, Len(lines))]
             ELSE LET cells == Cells(line)
                  IN  IF cells[1] # EmptyStr /\ cells[1] # << "-", "-" >>
                      THEN ReadRows(lines, i + 1, hdrs,
                                    Put(data, cells[1], RowRecord(hdrs, cells)))
                      ELSE ReadRows(lines, i + 1, hdrs, data)

read_existing_table(file) ==
    IF ~file.exists
    THEN [headers |-> DefaultHeaders, existing_data |-> EmptyDict,
          non_table_content |-> << >>, leading |-> << >>, trailing |-> << >>,
          found |-> FALSE]
    ELSE LET lines == Split(file.content, NL)
             table_start == TableStart(lines)
         IN  IF table_start = 0
             THEN [headers |-> DefaultHeaders, existing_data |-> EmptyDict,
                   non_table_content |-> lines, leading |-> lines,
                   trailing |-> << >>, found |-> FALSE]
             ELSE LET before == SubSeq(lines, 1, table_start - 1)
                      hdrs == Cells(Strip(lines[table_start]))
                      rows == ReadRows(lines, table_start + 2, hdrs, EmptyDict)
                  IN  [headers |-> hdrs, existing_data |-> rows.data,
                       non_table_content |-> before \o rows.rest,
                       leading |-> before, trailing |-> rows.rest,
                       found |-> TRUE]

-----------------------------------------------------------------------------
(* write_table                                                             *)

\* A cell as lines 237-238 and 256-257 write it.
CellText(value) ==
    << SP >> \o (IF Strip(value) # EmptyStr THEN Strip(value) ELSE << SP >>)
             \o << SP, BAR >>

RECURSIVE RowText(_)
RowText(values) ==
    IF values = << >> THEN << >>
    ELSE CellText(Head(values)) \o RowText(Tail(values))

HeaderRow(hdrs) == << BAR >> \o RowText(hdrs)

SeparatorRow(hdrs) ==
    << BAR >> \o RowText([j \in 1..Len(hdrs) |-> << "-", "-", "-" >>])

DataRow(hdrs, row_data) ==
    << BAR >> \o RowText([j \in 1..Len(hdrs) |-> Get(row_data, hdrs[j])])

\* table_lines (lines 231-258).
TableLines(hdrs, data) ==
    LET keys == SortedSet(DOMAIN data)
    IN  << HeaderRow(hdrs), SeparatorRow(hdrs) >>
        \o [k \in 1..Len(keys) |-> DataRow(hdrs, data[keys[k]])]

\* Lines 263-264: the blank lines at the end are popped.
RECURSIVE PopBlank(_)
PopBlank(content) ==
    IF content # << >> /\ Strip(content[Len(content)]) = EmptyStr
    THEN PopBlank(SubSeq(content, 1, Len(content) - 1))
    ELSE content

\* non_table_text after lines 261-271.
NonTableText(content) ==
    IF content = << >> THEN EmptyStr
    ELSE LET text == Join(PopBlank(content), NL)
         IN  IF text # EmptyStr /\ ~EndsWith(text, << NL >>)
             THEN text \o << NL >>
             ELSE text

\* non_table_text after lines 275-282.
WithBlankLine(text) ==
    IF text # EmptyStr /\ ~EndsWith(text, << NL, NL >>)
    THEN IF EndsWith(text, << NL >>) THEN text \o << NL >>
         ELSE text \o << NL, NL >>
    ELSE text

\* new_content, the text write_table writes (lines 284-293).
write_table(hdrs, data, content) ==
    LET text == WithBlankLine(NonTableText(content))
        table == Join(TableLines(hdrs, data), NL)
    IN  IF text # EmptyStr THEN text \o table ELSE << NL >> \o table

-----------------------------------------------------------------------------
(* The inputs of the runs of main                                          *)

MaxLead == 2
MaxTrail == 2
MaxRuns == 2

\* All lists of at most n elements of S.
RECURSIVE SeqsUpTo(_, _)
SeqsUpTo(S, n) ==
    IF n = 0 THEN {<< >>}
    ELSE LET shorter == SeqsUpTo(S, n - 1)
         IN  shorter \cup {Append(q, x) : q \in shorter, x \in S}

\* Prose before the table: blank lines and lines of text.
LeadTexts == SeqsUpTo({EmptyStr, << "x" >>}, MaxLead)

\* Prose after the table.
TrailTexts == SeqsUpTo({EmptyStr, << "y" >>}, MaxTrail)

\* The table of a file: none, a table without rows, a table written by
\* hand (a short row, a placeholder row, cells that are filled and cells
\* that are not).
TableTexts ==
    { << >>,
      << HeaderRow(<< ColIdentifier, ColChinese, ColEnglish, ColKey >>),
         SeparatorRow(<< ColIdentifier, ColChinese, ColEnglish, ColKey >>) >>,
      << << BAR, "ID", BAR, SP, "CN", BAR, "EN", SP, BAR, "KEY", BAR, "NOTE", BAR >>,
         << BAR, "-", "-", BAR, "-", "-", BAR, "-", "-", BAR, "-", "-", BAR, "-", "-", BAR >>,
         << BAR, SP, "B", SP, BAR, SP, "y", BAR, SP, BAR, BAR, "x", SP, "y", BAR >>,
         << SP, BAR, "-", "-", BAR, "x", BAR >>,
         << BAR, "A", BAR >> >> }

TableFiles ==
    {[exists |-> TRUE, content |-> Join(lead \o table \o trail, NL)] :
        lead \in LeadTexts, table \in TableTexts, trail \in TrailTexts}

LevelsFiles ==
    {[exists |-> TRUE, content |-> c] :
        c \in { << "A" >>,
                << "B", NL, "A", SP, SP, "A", NL >>,
                << "a", BAR, "B", SP, "A" >> }}

EnglishFiles ==
    {[exists |-> TRUE, entries |-> e] :
        e \in { << << NameKey(<< "a" >>), << "v" >> >>,
                   << TitleKey(<< "b" >>), << "w" >> >> >>,
                << << NameKey(<< "a" >>), << "v" >> >>,
                   << NameKey(<< "a" >>), << "v", BAR, "w" >> >> >> }}

ChineseFiles ==
    {[exists |-> TRUE, entries |-> e] :
        e \in { << << NameKey(<< "a" >>), << "x" >> >> >>,
                << << TitleKey(<< "b" >>), << SP, "y" >> >>,
                   << NameKey(<< "b" >>), << "x" >> >> >> }}

\* A path at which there is no file.
NoTextFile == [exists |-> FALSE, content |-> EmptyStr]
NoStringsFile == [exists |-> FALSE, entries |-> << >>]

-----------------------------------------------------------------------------
(* main                                                                    *)

Init ==
    /\ table_file \in TableFiles \cup {NoTextFile}
    /\ levels_file \in LevelsFiles \cup {NoTextFile}
    /\ chinese_file \in ChineseFiles \cup {NoStringsFile}
    /\ english_file \in EnglishFiles \cup {NoStringsFile}
    /\ pc = "check"
    /\ run = 1
    /\ error = "none"
    /\ identifiers = << >>
    /\ chinese_translations = EmptyDict
    /\ english_translations = EmptyDict
    /\ headers = << >>
    /\ existing_data = EmptyDict
    /\ non_table_content = << >>
    /\ merged_data = EmptyDict
    /\ leading = << >>
    /\ trailing = << >>
    /\ table_found = FALSE
    /\ start_table = table_file
    /\ prev_output = << >>
    /\ prev_merged = << >>

\* The paths in the order the loop of lines 335-341 visits them.
Paths ==
    << [name |-> "table", exists |-> table_file.exists],
       [name |-> "levels", exists |-> levels_file.exists],
       [name |-> "chinese", exists |-> chinese_file.exists],
       [name |-> "english", exists |-> english_file.exists] >>

\* FirstMissing that stops one path short of the end of the list.
FirstMissingButLast(paths) ==
    LET missing == {i \in 1..(Len(paths) - 1) : ~paths[i].exists}
    IN  IF missing = {} THEN "none"
        ELSE paths[CHOOSE i \in missing : \A j \in missing : i <= j].name

\* The name of the first path that does not exist, "none" when all do.
FirstMissing(paths) ==
    LET missing == {i \in 1..Len(paths) : ~paths[i].exists}
    IN  IF missing = {} THEN "none"
        ELSE paths[CHOOSE i \in missing : \A j \in missing : i <= j].name

\* Lines 334-341: the existence check, and the return of line 341.
CheckFiles ==
    /\ pc = "check"
    /\ error' = FirstMissing(Paths)
    /\ pc' = IF FirstMissing(Paths) = "none" THEN "parse_levels" ELSE "exit"
    /\ UNCHANGED << table_file, levels_file, chinese_file, english_file, run,
                    identifiers, chinese_translations, english_translations,
                    headers, existing_data, non_table_content, merged_data,
                    leading, trailing, table_found, start_table, prev_output,
                    prev_merged >>

\* Line 346.
ParseLevels ==
    /\ pc = "parse_levels"
    /\ identifiers' = parse_level_list(levels_file)
    /\ pc' = "parse_chinese"
    /\ UNCHANGED << table_file, levels_file, chinese_file, english_file, run,
                    error, chinese_translations, english_translations,
                    headers, existing_data, non_table_content, merged_data,
                    leading, trailing, table_found, start_table, prev_output,
                    prev_merged >>

\* Line 351.
ParseChinese ==
    /\ pc = "parse_chinese"
    /\ chinese_translations' = parse_strings_file(chinese_file)
    /\ pc' = "parse_english"
    /\ UNCHANGED << table_file, levels_file, chinese_file, english_file, run,
                    error, identifiers, english_translations,
                    headers, existing_data, non_table_content, merged_data,
                    leading, trailing, table_found, start_table, prev_output,
                    prev_merged >>

\* Line 352.
ParseEnglish ==
    /\ pc = "parse_english"
    /\ english_translations' = parse_strings_file(english_file)
    /\ pc' = "read_table"
    /\ UNCHANGED << table_file, levels_file, chinese_file, english_file, run,
                    error, identifiers, chinese_translations,
                    headers, existing_data, non_table_content, merged_data,
                    leading, trailing, table_found, start_table, prev_output,
                    prev_merged >>

\* Line 366.
ReadTable ==
    /\ pc = "read_table"
    /\ LET read == read_existing_table(table_file)
       IN  /\ headers' = read.headers
           /\ existing_data' = read.existing_data
           /\ non_table_content' = read.non_table_content
           /\ leading' = read.leading
           /\ trailing' = read.trailing
           /\ table_found' = read.found
    /\ pc' = "merge"
    /\ UNCHANGED << table_file, levels_file, chinese_file, english_file, run,
                    error, identifiers, chinese_translations,
                    english_translations, merged_data, start_table,
                    prev_output, prev_merged >>

\* Line 372.
Merge ==
    /\ pc = "merge"
    /\ merged_data' = merge_table_data(identifiers, chinese_translations,
                                       english_translations, existing_data)
    /\ pc' = "write"
    /\ UNCHANGED << table_file, levels_file, chinese_file, english_file, run,
                    error, identifiers, chinese_translations,
                    english_translations, headers, existing_data,
                    non_table_content, leading, trailing, table_found,
                    start_table, prev_output, prev_merged >>

\* Line 375: the file is created or overwritten.
WriteTable ==
    /\ pc = "write"
    /\ table_file' = [exists |-> TRUE,
                      content |-> write_table(headers, merged_data,
                                              non_table_content)]
    /\ non_table_content' = PopBlank(non_table_content)
    /\ pc' = "done"
    /\ UNCHANGED << levels_file, chinese_file, english_file, run,
                    error, identifiers, chinese_translations,
                    english_translations, headers, existing_data, merged_data,
                    leading, trailing, table_found, start_table, prev_output,
                    prev_merged >>

\* The program is started again, on the files as the last run left them.
RunAgain ==
    /\ pc = "done"
    /\ run < MaxRuns
    /\ run' = run + 1
    /\ pc' = "check"
    /\ error' = "none"
    /\ identifiers' = << >>
    /\ chinese_translations' = EmptyDict
    /\ english_translations' = EmptyDict
    /\ headers' = << >>
    /\ existing_data' = EmptyDict
    /\ non_table_content' = << >>
    /\ merged_data' = EmptyDict
    /\ leading' = << >>
    /\ trailing' = << >>
    /\ table_found' = FALSE
    /\ start_table' = table_file
    /\ prev_output' = << table_file >>
    /\ UNCHANGED << table_file, levels_file, chinese_file, english_file,
                    prev_merged >>

Next ==
    \/ CheckFiles
    \/ ParseLevels
    \/ ParseChinese
    \/ ParseEnglish
    \/ ReadTable
    \/ Merge
    \/ WriteTable
    \/ RunAgain

Spec == Init /\ [][Next]_vars

-----------------------------------------------------------------------------
(* merge_table_data called on its own, on arguments of every shape         *)

MaxIds == 3

IdPool == { << "A" >>, << "a" >>, << "B" >> }

IdLists == SeqsUpTo(IdPool, MaxIds)

\* A dict with the keys for which pick gives a value; "absent" leaves one out.
DictOf(pick) ==
    [k \in {key \in DOMAIN pick : pick[key] # "absent"} |-> pick[k]]

EnglishMaps ==
    {DictOf(NameKey(<< "a" >>) :> n @@ TitleKey(<< "a" >>) :> t
            @@ TitleKey(<< "b" >>) :> u) :
        n \in {"absent", EmptyStr, << "v" >>},
        t \in {"absent", << "w" >>},
        u \in {"absent", << SP >>}}

ChineseMaps ==
    {DictOf(NameKey(<< "a" >>) :> n @@ TitleKey(<< "a" >>) :> t) :
        n \in {"absent", EmptyStr, << "x" >>},
        t \in {"absent", << "y" >>}}

\* A record of the nine columns.
Entry(identifier, chinese, nickname, english, key, note) ==
    [c \in Range(DefaultHeaders) |->
        CASE c = ColIdentifier -> identifier
          [] c = ColChinese -> chinese
          [] c = ColNickname -> nickname
          [] c = ColEnglish -> english
          [] c = ColKey -> key
          [] c = ColNote -> note
          [] OTHER -> EmptyStr]

ExistingTables ==
    { EmptyDict,
      << "A" >> :> Entry(<< "A" >>, EmptyStr, << "n" >>, << SP >>, EmptyStr, EmptyStr),
      << "A" >> :> Entry(<< "A" >>, << "c" >>, EmptyStr, << "e" >>, << "k" >>, << SP >>)
        @@ << "B" >> :> Entry(<< "B" >>, EmptyStr, EmptyStr, EmptyStr, << "k" >>, << "n" >>),
      << "a" >> :> (ColIdentifier :> << "a" >> @@ ColChinese :> << SP, SP >>)
        @@ << "C" >> :> Entry(<< "C" >>, EmptyStr, EmptyStr, EmptyStr, EmptyStr, EmptyStr),
      << "B" >> :> Entry(<< "b" >>, << SP >>, << SP >>, << "e" >>, EmptyStr, EmptyStr)
        @@ << "A" >> :> Entry(<< "A" >>, << "c" >>, << "n" >>, EmptyStr, << SP >>, << "n" >>) }

InitMerge ==
    /\ table_file = NoTextFile
    /\ levels_file = NoTextFile
    /\ chinese_file = NoStringsFile
    /\ english_file = NoStringsFile
    /\ pc = "merge"
    /\ run = 1
    /\ error = "none"
    /\ identifiers \in IdLists
    /\ chinese_translations \in ChineseMaps
    /\ english_translations \in EnglishMaps
    /\ headers = DefaultHeaders
    /\ existing_data \in ExistingTables
    /\ non_table_content = << >>
    /\ merged_data = EmptyDict
    /\ leading = << >>
    /\ trailing = << >>
    /\ table_found = FALSE
    /\ start_table = NoTextFile
    /\ prev_output = << >>
    /\ prev_merged = << >>

\* The call is made again with the same identifiers listed another way.
Relist ==
    /\ pc = "write"
    /\ \E ids \in IdLists :
          /\ ids # identifiers
          /\ Range(ids) = Range(identifiers)
          /\ identifiers' = ids
    /\ prev_merged' = << merged_data >>
    /\ merged_data' = EmptyDict
    /\ pc' = "merge"
    /\ UNCHANGED << table_file, levels_file, chinese_file, english_file, run,
                    error, chinese_translations, english_translations,
                    headers, existing_data, non_table_content, leading,
                    trailing, table_found, start_table, prev_output >>

NextMerge ==
    \/ Merge
    \/ Relist

SpecMerge == InitMerge /\ [][NextMerge]_vars

-----------------------------------------------------------------------------
(* Properties of merge_table_data, checked under SpecMerge                 *)

\* merge_table_data has returned.
Merged == pc = "write"

\* The identifiers of the list that had no record before the call.
NewIdentifiers == Range(identifiers) \ DOMAIN existing_data

\* The identifiers that had a record before the call and are in the list.
ListedExisting == Range(identifiers) \cap DOMAIN existing_data

BackfillColumns == {ColChinese, ColEnglish, ColKey}

\* C1: after merge_table_data, every cell of every record of existing_data
\* that was not empty or white space has the same value in the merged
\* record of the same identifier, whatever the list and the two maps hold.
C1_NonEmptyCellsKept ==
    Merged =>
        \A id \in DOMAIN existing_data :
            \A c \in DOMAIN existing_data[id] :
                ~is_empty_or_whitespace(existing_data[id][c]) =>
                    /\ id \in DOMAIN merged_data
                    /\ c \in DOMAIN merged_data[id]
                    /\ merged_data[id][c] = existing_data[id][c]

\* A listed record whose Chinese name is filled, while the lookup offers
\* another Chinese name, and whose record the merge did change elsewhere.
C1_Witness ==
    /\ Merged
    /\ \E id \in ListedExisting :
          LET found == Lookup(id, chinese_translations, english_translations)
          IN  /\ ~is_empty_or_whitespace(existing_data[id][ColChinese])
              /\ found.chinese_name # EmptyStr
              /\ found.chinese_name # existing_data[id][ColChinese]
              /\ merged_data[id] # existing_data[id]

\* C2: for every identifier without a record, when the Chinese map holds
\* name_<lowercase identifier> = V, the merged record's Chinese name is V,
\* whatever the English map holds.
C2_ChineseNameFromChineseMap ==
    Merged =>
        \A id \in NewIdentifiers :
            NameKey(id) \in DOMAIN chinese_translations =>
                merged_data[id][ColChinese] = chinese_translations[NameKey(id)]

\* C4: the keys of the merged record set are exactly the keys of
\* existing_data together with the listed identifiers.
C4_KeysAreUnion ==
    Merged => DOMAIN merged_data = (DOMAIN existing_data) \cup Range(identifiers)

\* An identifier listed twice that had no record, beside a record whose
\* identifier is not listed.
C4_Witness ==
    /\ Merged
    /\ \E i, j \in 1..Len(identifiers) :
          i # j /\ identifiers[i] = identifiers[j]
                /\ identifiers[i] \in NewIdentifiers
    /\ (DOMAIN existing_data) \ Range(identifiers) # {}

\* C8: in a record that existed, the merge changes only the Chinese name,
\* the English name and the translation key, each only where the cell was
\* empty or white space; no column is lost; and the record of an identifier
\* that is not listed is the same in every column.
C8_OnlyEmptyNameCellsChange ==
    Merged =>
        \A id \in DOMAIN existing_data :
            LET old == existing_data[id]
                new == merged_data[id]
            IN  /\ DOMAIN old \subseteq DOMAIN new
                /\ \A c \in DOMAIN new :
                      (c \notin DOMAIN old \/ new[c] # old[c]) =>
                          /\ c \in BackfillColumns
                          /\ is_empty_or_whitespace(Get(old, c))
                /\ id \notin Range(identifiers) => new = old

\* A listed record in which a cell was filled while its empty note and its
\* blank nickname stayed as they were.
C8_Witness ==
    /\ Merged
    /\ \E id \in ListedExisting :
          /\ merged_data[id] # existing_data[id]
          /\ ColNote \in DOMAIN existing_data[id]
          /\ existing_data[id][ColNote] = EmptyStr
          /\ is_empty_or_whitespace(existing_data[id][ColNickname])

\* C9: for every identifier without a record, the translation key column
\* of the merged record is the key that key resolution returns for it.
C9_KeyColumnIsResolvedKey ==
    Merged =>
        \A id \in NewIdentifiers :
            merged_data[id][ColKey]
                = get_translation_key(id, english_translations)[2]

\* C9 as amended: the translation key column is the key resolved in the
\* English map when the Chinese or the English map holds a non-empty value
\* under that key, and the empty string otherwise.
C9_KeyColumnUnlessBothNamesEmpty ==
    Merged =>
        \A id \in NewIdentifiers :
            LET key == get_translation_key(id, english_translations)[2]
            IN  merged_data[id][ColKey]
                    = IF /\ Get(chinese_translations, key) = EmptyStr
                         /\ Get(english_translations, key) = EmptyStr
                      THEN EmptyStr
                      ELSE key

\* Two identifiers without records: one whose resolved key holds the empty
\* string in both maps, one whose key, found by the title fallback, is kept.
C9_Witness ==
    /\ Merged
    /\ \E id \in NewIdentifiers :
          /\ get_translation_key(id, english_translations)[2] # EmptyStr
          /\ merged_data[id][ColKey] = EmptyStr
    /\ \E id \in NewIdentifiers : merged_data[id][ColKey] = TitleKey(id)

\* C10: two lists of the same identifiers give the same merged record set
\* and the same table rows.
C10_ListOrderIrrelevant ==
    (Merged /\ prev_merged # << >>) =>
        /\ merged_data = prev_merged[1]
        /\ TableLines(DefaultHeaders, merged_data)
               = TableLines(DefaultHeaders, prev_merged[1])

\* The second call got a list that repeats an identifier and is not in
\* ascending order, and created a record whose English name is empty.
C10_Witness ==
    /\ Merged
    /\ prev_merged # << >>
    /\ Len(identifiers) > Cardinality(Range(identifiers))
    /\ identifiers # Sorted(identifiers)
    /\ \E id \in NewIdentifiers :
          /\ merged_data[id][ColChinese] # EmptyStr
          /\ merged_data[id][ColEnglish] = EmptyStr

-----------------------------------------------------------------------------
(* Properties of the runs of main, checked under Spec                      *)

Finished == pc = "done"

\* The lines of the table file as it is now.
OutputLines == Split(table_file.content, NL)

\* C3: a second run on the file the first run wrote, with the same level
\* list and translation files, leaves the file byte for byte as it was.
C3_SecondRunWritesSameFile ==
    (Finished /\ prev_output # << >>) => table_file = prev_output[1]

\* C5: when the input has a header line, the output starts with the lines
\* that preceded it, without the blank lines at their end, then exactly one
\* blank line, then the table.
C5_LeadingThenOneBlankThenTable ==
    (Finished /\ table_found) =>
        LET kept == PopBlank(leading)
        IN  /\ Len(OutputLines) >= Len(kept) + 2
            /\ SubSeq(OutputLines, 1, Len(kept) + 1) = kept \o << EmptyStr >>
            /\ TableStart(OutputLines) = Len(kept) + 2

\* C6: every line of text that followed the table of the input is in the
\* output after the data rows of the table.
C6_TrailingAfterTable ==
    (Finished /\ table_found) =>
        \A i \in 1..Len(trailing) :
            Strip(trailing[i]) # EmptyStr =>
                trailing[i] \in Range(read_existing_table(table_file).trailing)

\* The first of the four paths, in the order table, levels, chinese,
\* english, at which there is no file.
MissingPath ==
    IF ~table_file.exists THEN "table"
    ELSE IF ~levels_file.exists THEN "levels"
    ELSE IF ~chinese_file.exists THEN "chinese"
    ELSE IF ~english_file.exists THEN "english"
    ELSE "none"

\* C7: main goes past the existence check only when all four paths exist;
\* while a path is missing the table file is as the run found it, nothing
\* has been parsed, and main ends having named the first missing path.
C7_MissingFileStopsMain ==
    /\ pc \notin {"check", "exit"} => MissingPath = "none"
    /\ MissingPath # "none" =>
          /\ table_file = start_table
          /\ identifiers = << >>
          /\ chinese_translations = EmptyDict
          /\ english_translations = EmptyDict
          /\ pc = "exit" => error = MissingPath

\* main has returned from the check: only the last path is missing.
C7_Witness ==
    /\ pc = "exit"
    /\ table_file.exists /\ levels_file.exists /\ chinese_file.exists
    /\ ~english_file.exists
    /\ error = "english"

====
